---- MODULE Spec2Model ----
(***************************************************************************)
(* Petstore end-to-end suite: the global authentication setup              *)
(* (setup/globalSetup.ts), the runner configuration (playwright.config.ts) *)
(* and the fixture layer (fixtures/baseTest.ts) with the page objects the  *)
(* tests drive.  Every await of globalSetup is one step; a step that can   *)
(* reject has a disjunct for the rejection.                                *)
(***************************************************************************)
EXTENDS Integers, Sequences, FiniteSets, TLC

\* ------------------------------------------------------------------ bounds
NumTests == 2
NumWorkers == 2
\* Suite runs in succession against the same checkout.
MaxRuns == 2

Tests == 1..NumTests
CtxIds == Tests

\* --------------------------------------------------------------- constants
\* What auth-state.json can hold: nothing, bytes that are no storage state,
\* the storage state of a context that is not signed in, or of one that is.
FileStates == {"absent", "malformed", "unauth", "auth"}

\* The fixtures a test asks for, in the order the runner sets them up
\* (a fixture after the fixtures it depends on).
Kinds == {"auth", "pets"}

VARIABLES
  phase,        \* runner: "setup", "workers", "aborted"
  gsPc,         \* globalSetup's position
  gsRuns,       \* how many times globalSetup was invoked
  gsErr,        \* an exception is pending behind the finally block
  browserOpen,  \* the browser launched by globalSetup is running
  gsCtx,        \* storage of globalSetup's context: "none", "unauth", "auth"
  gsUrl,        \* page.url() of globalSetup's page
  classified,   \* the branch taken on currentUrl: "none", "success", "failure"
  attempts,     \* calls of context.storageState({path}) in this run
  writes,       \* of these, the ones that wrote the file
  log,          \* the console.log lines written so far
  file,         \* auth-state.json
  session,      \* the server's side of the admin session: "none", "valid", "revoked"
  tPc, tKind, tStack, tCtx, tUrl, tOutcome, bodyRan,
  ctxCookies, ctxOpen

gsVars == <<gsPc, gsRuns, gsErr, browserOpen, gsCtx, gsUrl, classified,
            attempts, writes, log>>
testVars == <<tPc, tKind, tStack, tCtx, tUrl, tOutcome, bodyRan>>
ctxVars == <<ctxCookies, ctxOpen>>

\* One call of PetsPage.createNewPet, and its caller.
VARIABLES
  cpPc,         \* position in createNewPet
  cpIn,         \* the caller's petData object (tags: 0 undefined, or an array)
  cpHeap,       \* the arrays: 1 the caller's tags, 2 the one createNewPet makes
  cpArg,        \* the values petData held when createNewPet was called
  cpRec,        \* createdPetData
  cpDialog,     \* the add-pet dialog: "none", "open", "closing", "hidden"
  cpUi,         \* the clicks and fills made on the page, in order
  cpAttach,     \* the image step: "none", "skipped", "nofile", "raised", "done"
  cpResult,     \* "none", "returned", "threw"
  cpButton      \* CREATE as the enablement wait left it: "unknown", "enabled", "disabled"

cpVars == <<cpPc, cpIn, cpHeap, cpArg, cpRec, cpDialog, cpUi, cpAttach, cpResult,
            cpButton>>

\* One call of PetsPage.getNameFieldError.
VARIABLES
  nePc,         \* "idle", "visible", "done"
  neText,       \* textContent of the error element
  neAppearsAt,  \* ms after the call at which the error becomes visible
  neRead,       \* textContent(): "none", "ok", "rejected"
  neResult,     \* the value returned
  neOutcome     \* "none", "returned", "threw"

neVars == <<nePc, neText, neAppearsAt, neRead, neResult, neOutcome>>

\* CreatedPetsTracker in one worker process running the Add Pet tests.
VARIABLES
  trPets,       \* CreatedPetsTracker.createdPets
  trSince,      \* the records passed to storePet since the last clearAllPets
  trPc,         \* "between", "hooked", "body"
  trAtStart,    \* getCount() as the test body starts
  trRan         \* tests started in this worker

trVars == <<trPets, trSince, trPc, trAtStart, trRan>>

\* One call of DataProvider.getUser.
VARIABLES
  dpUsers,      \* testData.json: the users object
  dpRole,       \* the role asked for
  dpPc,         \* "idle", "done"
  dpResult      \* the value returned

dpVars == <<dpUsers, dpRole, dpPc, dpResult>>

\* One call of PetFaker.generateRandomPet.
VARIABLES
  pfPc,         \* "idle", "typed", "named", "done"
  pfType,       \* the PET_TYPES entry picked
  pfPet         \* the record being built

pfVars == <<pfPc, pfType, pfPet>>

\* Tests of one run creating pets in the one application and reading the
\* pet table.
VARIABLES
  lsStore,      \* the application's pets, in the order of their ids
  lsPc,         \* per test: "start", "created", "read"
  lsMine,       \* per test: the pet it supplied
  lsSeen        \* per test: the first row it read

lsVars == <<lsStore, lsPc, lsMine, lsSeen>>

\* One call of a navigation or menu method of HomePage or PetsPage.
VARIABLES
  nvOp,         \* the method called
  nvTodo,       \* its statements still to run
  nvUrl,        \* page.url(): "home", "pets", "login"
  nvLoaded,     \* the document has reached the networkidle load state
  nvMenu,       \* .mat-menu-content is visible
  nvDialog,     \* mat-dialog-container is visible
  nvResult      \* "none", "returned", "threw"

nvVars == <<nvOp, nvTodo, nvUrl, nvLoaded, nvMenu, nvDialog, nvResult>>

\* BASE_URL on its way into the configuration and into globalSetup.
VARIABLES
  buShell,      \* BASE_URL in the environment the runner is started with
  buDotenv,     \* BASE_URL in the .env file
  buEnv,        \* process.env.BASE_URL
  buConfig,     \* use.baseURL
  buSetupUrl,   \* the argument of globalSetup's page.goto
  buTestUrl,    \* where the petsPage fixture's goto('/') goes
  buPc          \* "start", "configured", "setup", "tests"

buVars == <<buShell, buDotenv, buEnv, buConfig, buSetupUrl, buTestUrl, buPc>>

\* One test asking for loginPage, for authenticatedPage, or for both.
VARIABLES
  bpFile,       \* auth-state.json
  bpWants,      \* the fixtures of the test, in the order it sets them up
  bpDone,       \* how many of them are set up and not torn down
  bpNext,       \* contexts made so far in the worker's browser
  bpCtx,        \* per fixture: the context it made (0: none)
  bpSeed,       \* per fixture: the cookies its context was created with
  bpCookies,    \* per fixture: the cookies of its context now
  bpPc          \* "setup", "body", "teardown", "fixtureError", "finished"

bpVars == <<bpFile, bpWants, bpDone, bpNext, bpCtx, bpSeed, bpCookies, bpPc>>

coreVars == <<phase, gsVars, file, session, testVars, ctxVars>>
\* What the suite's setup and fixtures leave alone.
partVars == <<cpVars, neVars, trVars, dpVars, pfVars, lsVars>>
extVars == <<partVars, nvVars, buVars, bpVars>>
\* What each part leaves alone.
cpRest == <<coreVars, neVars, trVars, dpVars, pfVars, lsVars, nvVars, buVars, bpVars>>
neRest == <<coreVars, cpVars, trVars, dpVars, pfVars, lsVars, nvVars, buVars, bpVars>>
trRest == <<coreVars, cpVars, neVars, dpVars, pfVars, lsVars, nvVars, buVars, bpVars>>
dpRest == <<coreVars, cpVars, neVars, trVars, pfVars, lsVars, nvVars, buVars, bpVars>>
pfRest == <<coreVars, cpVars, neVars, trVars, dpVars, lsVars, nvVars, buVars, bpVars>>
lsRest == <<coreVars, cpVars, neVars, trVars, dpVars, pfVars, nvVars, buVars, bpVars>>
nvRest == <<coreVars, partVars, buVars, bpVars>>
buRest == <<coreVars, partVars, nvVars, bpVars>>
bpRest == <<coreVars, partVars, nvVars, buVars>>
vars == <<coreVars, extVars>>

\* ------------------------------------------------------------ globalSetup
\* Variant: a snapshot that leaves the cookies out.
StorageStateEmpty(ctx) == "unauth"

\* context.storageState({ path: 'auth-state.json' }): the file receives the
\* cookies and storage of the context it is called on.
StorageStateOf(ctx) == IF ctx = "auth" THEN "auth" ELSE "unauth"

\* One call of context.storageState({path}); a call that rejects leaves the
\* file as it was.
SnapshotWrite(ok) ==
  /\ attempts' = attempts + 1
  /\ IF ok
       THEN file' = StorageStateOf(gsCtx) /\ writes' = writes + 1
       ELSE UNCHANGED <<file, writes>>

\* currentUrl.includes('/login')
OnLoginSurface(url) == url = "login"

\* line 6 and line 8: chromium.launch(), outside the try block.
GsLaunch ==
  /\ phase = "setup" /\ gsPc = "init"
  /\ gsRuns' = gsRuns + 1
  /\ log' = log \cup {"starting"}
  /\ \/ browserOpen' = TRUE /\ gsPc' = "launched"
     \/ browserOpen' = FALSE /\ gsPc' = "threw"
  /\ UNCHANGED <<extVars, phase, gsErr, gsCtx, gsUrl, classified, attempts, writes,
                 file, session, testVars, ctxVars>>

\* Variant: globalSetup's context created from the auth-state.json on disk.
GsNewContextSeeded ==
  /\ gsPc = "launched"
  /\ \/ /\ gsCtx' = (IF file \in {"unauth", "auth"} THEN file ELSE "unauth")
        /\ gsPc' = "haveContext"
     \/ gsCtx' = gsCtx /\ gsPc' = "threw"
  /\ UNCHANGED <<extVars, phase, gsRuns, gsErr, browserOpen, gsUrl, classified, attempts,
                 writes, log, file, session, testVars, ctxVars>>

\* line 9: browser.newContext(), outside the try block, no storageState.
GsNewContext ==
  /\ gsPc = "launched"
  /\ \/ gsCtx' = "unauth" /\ gsPc' = "haveContext"
     \/ gsCtx' = gsCtx /\ gsPc' = "threw"
  /\ UNCHANGED <<extVars, phase, gsRuns, gsErr, browserOpen, gsUrl, classified, attempts,
                 writes, log, file, session, testVars, ctxVars>>

\* lines 10-11: context.newPage(), outside the try block.
GsNewPage ==
  /\ gsPc = "haveContext"
  /\ \/ gsUrl' = "blank" /\ gsPc' = "havePage"
     \/ gsUrl' = gsUrl /\ gsPc' = "threw"
  /\ UNCHANGED <<extVars, phase, gsRuns, gsErr, browserOpen, gsCtx, classified, attempts,
                 writes, log, file, session, testVars, ctxVars>>

\* line 16: page.goto(BASE_URL + '/login'), the first statement of the try.
GsGoto ==
  /\ gsPc = "havePage"
  /\ \/ gsUrl' = "login" /\ gsPc' = "atLogin"
     \/ gsUrl' = gsUrl /\ gsPc' = "catch"
  /\ UNCHANGED <<extVars, phase, gsRuns, gsErr, browserOpen, gsCtx, classified, attempts,
                 writes, log, file, session, testVars, ctxVars>>

\* line 18: loginPage.login(username, password): fill, fill, click.  The
\* application accepts the credentials (session cookie set, redirect away
\* from /login) or rejects them (stays on /login); or a fill or the click
\* rejects.
GsLogin ==
  /\ gsPc = "atLogin"
  /\ \/ /\ gsCtx' = "auth" /\ session' = "valid" /\ gsUrl' = "home"
        /\ gsPc' = "submitted"
     \/ /\ UNCHANGED <<gsCtx, session, gsUrl>>
        /\ gsPc' = "submitted"
     \/ /\ UNCHANGED <<gsCtx, session, gsUrl>>
        /\ gsPc' = "catch"
  /\ UNCHANGED <<extVars, phase, gsRuns, gsErr, browserOpen, classified, attempts,
                 writes, log, file, testVars, ctxVars>>

\* lines 21-22: waitForLoadState('networkidle'), waitForTimeout(1000).
GsSettle ==
  /\ gsPc = "submitted"
  /\ \/ gsPc' = "settled"
     \/ gsPc' = "catch"
  /\ UNCHANGED <<extVars, phase, gsRuns, gsErr, browserOpen, gsCtx, gsUrl, classified,
                 attempts, writes, log, file, session, testVars, ctxVars>>

\* Variant: the credentials line written on both branches.
GsClassifyLoggingAlways ==
  /\ gsPc = "settled"
  /\ IF ~OnLoginSurface(gsUrl)
       THEN /\ classified' = "success"
            /\ log' = log \cup {"credentials"}
            /\ gsPc' = "saveSuccess"
       ELSE /\ classified' = "failure"
            /\ log' = log \cup {"loginFailed", "credentials"}
            /\ gsPc' = "saveFailure"
  /\ UNCHANGED <<extVars, phase, gsRuns, gsErr, browserOpen, gsCtx, gsUrl, attempts,
                 writes, file, session, testVars, ctxVars>>

\* lines 25-26 and 30-38: the branch on currentUrl.  On the login surface the
\* error locator is fetched (getErrorMessage returns the locator and cannot
\* reject) and the failure and the credentials are logged.
GsClassify ==
  /\ gsPc = "settled"
  /\ IF ~OnLoginSurface(gsUrl)
       THEN /\ classified' = "success"
            /\ log' = log
            /\ gsPc' = "saveSuccess"
       ELSE /\ classified' = "failure"
            /\ log' = log \cup {"loginFailed", "credentials"}
            /\ gsPc' = "saveFailure"
  /\ UNCHANGED <<extVars, phase, gsRuns, gsErr, browserOpen, gsCtx, gsUrl, attempts,
                 writes, file, session, testVars, ctxVars>>

\* lines 28-29: the success branch's storageState and its log line.
GsSaveSuccess ==
  /\ gsPc = "saveSuccess"
  /\ \/ /\ SnapshotWrite(TRUE)
        /\ log' = log \cup {"successSaved"}
        /\ gsPc' = "finally"
     \/ /\ SnapshotWrite(FALSE)
        /\ log' = log
        /\ gsPc' = "catch"
  /\ UNCHANGED <<extVars, phase, gsRuns, gsErr, browserOpen, gsCtx, gsUrl, classified,
                 session, testVars, ctxVars>>

\* lines 41-42: the failure branch's storageState and its log line.
GsSaveFailure ==
  /\ gsPc = "saveFailure"
  /\ \/ /\ SnapshotWrite(TRUE)
        /\ log' = log \cup {"fixturesWillHandle"}
        /\ gsPc' = "finally"
     \/ /\ SnapshotWrite(FALSE)
        /\ log' = log
        /\ gsPc' = "catch"
  /\ UNCHANGED <<extVars, phase, gsRuns, gsErr, browserOpen, gsCtx, gsUrl, classified,
                 session, testVars, ctxVars>>

\* lines 45-48: the catch block logs and calls storageState again; it has no
\* handler of its own, so a rejection here is pending behind the finally.
GsCatch ==
  /\ gsPc = "catch"
  /\ log' = log \cup {"errorDuringLogin"}
  /\ \/ SnapshotWrite(TRUE) /\ gsErr' = FALSE
     \/ SnapshotWrite(FALSE) /\ gsErr' = TRUE
  /\ gsPc' = "finally"
  /\ UNCHANGED <<extVars, phase, gsRuns, browserOpen, gsCtx, gsUrl, classified,
                 session, testVars, ctxVars>>

\* lines 49-51: browser.close(), then the function returns or rethrows.
GsFinally ==
  /\ gsPc = "finally"
  /\ browserOpen' = FALSE
  /\ gsPc' = IF gsErr THEN "threw" ELSE "returned"
  /\ UNCHANGED <<extVars, phase, gsRuns, gsErr, gsCtx, gsUrl, classified, attempts,
                 writes, log, file, session, testVars, ctxVars>>

GsFinished == gsPc \in {"returned", "threw"}

NextSetup ==
  \/ GsLaunch \/ GsNewContext \/ GsNewPage \/ GsGoto \/ GsLogin \/ GsSettle
  \/ GsClassify \/ GsSaveSuccess \/ GsSaveFailure \/ GsCatch \/ GsFinally

\* The suite is run again (npx playwright test): globalSetup is a fresh call
\* in a fresh process; auth-state.json and the server's session stay as the
\* earlier run left them.
SuiteRerun ==
  /\ phase = "setup" /\ GsFinished /\ gsRuns < MaxRuns
  /\ gsPc' = "init" /\ gsErr' = FALSE /\ gsCtx' = "none" /\ gsUrl' = "none"
  /\ classified' = "none" /\ attempts' = 0 /\ writes' = 0 /\ log' = {}
  /\ UNCHANGED <<extVars, phase, gsRuns, browserOpen, file, session, testVars, ctxVars>>

\* ----------------------------------------------------------------- runner
\* playwright.config.ts line 8 registers globalSetup: the runner awaits it
\* before it starts a worker, and starts none when it rejects.
\* Variant: a runner that starts workers without awaiting globalSetup.
SetupCompleteNotAwaited == gsPc # "init"

SetupComplete == gsPc = "returned"

RunnerStartWorkers ==
  /\ phase = "setup" /\ SetupComplete
  /\ phase' = "workers"
  /\ UNCHANGED <<extVars, gsVars, file, session, testVars, ctxVars>>

RunnerAbort ==
  /\ phase = "setup" /\ gsPc = "threw"
  /\ phase' = "aborted"
  /\ UNCHANGED <<extVars, gsVars, file, session, testVars, ctxVars>>

\* --------------------------------------------------------------- fixtures
\* Variant: authenticatedPage set up once for the test and once more for
\* petsPage.
ResolveOrderPerConsumer(k) ==
  IF k = "pets" THEN <<"authenticatedPage", "authenticatedPage", "petsPage">>
                ELSE <<"authenticatedPage">>

\* petsPage: async ({ authenticatedPage }, use): a fixture is set up after
\* the fixtures it names in its first parameter.
ResolveOrder(k) ==
  IF k = "pets" THEN <<"authenticatedPage", "petsPage">>
                ELSE <<"authenticatedPage">>

\* Variant: fixtures released in the order they were set up.
ReleaseIndexFirstAcquired(stack) == 1

\* The fixture released next: the one set up last.
ReleaseIndex(stack) == Len(stack)

RemoveAt(stack, i) ==
  [j \in 1..(Len(stack) - 1) |-> IF j < i THEN stack[j] ELSE stack[j + 1]]

Active(t) == tPc[t] \notin {"pending", "finished"}
\* A worker runs one test at a time.
WorkerFree == Cardinality({u \in Tests : Active(u)}) < NumWorkers

FullySetUp(t) == Len(tStack[t]) = Len(ResolveOrder(tKind[t]))
NextFixture(t) == ResolveOrder(tKind[t])[Len(tStack[t]) + 1]

\* browser.newContext({ storageState: 'auth-state.json' }) parses the file;
\* it rejects when the file is missing or is no storage state.
Loadable(f) == f \in {"unauth", "auth"}

\* Variant: one context kept and handed to every test.
NewContextIdShared(t) == 1

\* authenticatedPage is a test fixture: its function runs once for the test
\* that asks for it, and its browser.newContext() call makes a context of
\* that test's own.  A context is named after the call that made it.
NewContextId(t) == t

\* The application serves a request of a context as signed in when the
\* context carries the session cookie and the server still knows the session.
Authenticated(c) == ctxCookies[c] = "auth" /\ session = "valid"

\* goto('/'): the application redirects to /home, or to /login when the
\* request is not signed in.
Landing(c) == IF Authenticated(c) THEN "home" ELSE "login"

\* The runner hands a pending test to a free worker.
TestStart(t) ==
  /\ phase = "workers" /\ tPc[t] = "pending" /\ WorkerFree
  /\ \E k \in Kinds : tKind' = [tKind EXCEPT ![t] = k]
  /\ tPc' = [tPc EXCEPT ![t] = "setup"]
  /\ UNCHANGED <<extVars, phase, gsVars, file, session, tStack, tCtx, tUrl,
                 tOutcome, bodyRan, ctxVars>>

\* authenticatedPage, line 31: newContext starts reading auth-state.json.
AuthBegin(t) ==
  /\ tPc[t] = "setup" /\ ~FullySetUp(t) /\ NextFixture(t) = "authenticatedPage"
  /\ tPc' = [tPc EXCEPT ![t] = "authRead"]
  /\ UNCHANGED <<extVars, phase, gsVars, file, session, tKind, tStack,
                 tCtx, tUrl, tOutcome, bodyRan, ctxVars>>

\* Variant: a fixture that falls back to an empty context when the file
\* cannot be loaded.
AuthNewContextFallback(t) ==
  /\ tPc[t] = "authRead"
  /\ ctxCookies' = [ctxCookies EXCEPT
                      ![NewContextId(t)] = IF Loadable(file) THEN file ELSE "unauth"]
  /\ ctxOpen' = [ctxOpen EXCEPT ![NewContextId(t)] = TRUE]
  /\ tCtx' = [tCtx EXCEPT ![t] = NewContextId(t)]
  /\ tPc' = [tPc EXCEPT ![t] = "authCtx"]
  /\ UNCHANGED <<extVars, phase, gsVars, file, session, tKind, tStack, tUrl, tOutcome,
                 bodyRan>>

\* authenticatedPage, lines 31-33: the context is created with the cookies of
\* the file, or newContext rejects and the fixture function ends there.
AuthNewContext(t) ==
  /\ tPc[t] = "authRead"
  /\ IF Loadable(file)
       THEN /\ ctxCookies' = [ctxCookies EXCEPT ![NewContextId(t)] = file]
            /\ ctxOpen' = [ctxOpen EXCEPT ![NewContextId(t)] = TRUE]
            /\ tCtx' = [tCtx EXCEPT ![t] = NewContextId(t)]
            /\ tPc' = [tPc EXCEPT ![t] = "authCtx"]
            /\ UNCHANGED tOutcome
       ELSE /\ tPc' = [tPc EXCEPT ![t] = "teardown"]
            /\ tOutcome' = [tOutcome EXCEPT ![t] = "fixtureError"]
            /\ UNCHANGED <<tCtx, ctxVars>>
  /\ UNCHANGED <<extVars, phase, gsVars, file, session, tKind, tStack,
                 tUrl, bodyRan>>

\* authenticatedPage, lines 36-39: context.newPage(), then use(page).  When
\* newPage rejects the function ends before use: line 42 is not reached.
AuthNewPage(t) ==
  /\ tPc[t] = "authCtx"
  /\ \/ /\ tStack' = [tStack EXCEPT ![t] = Append(@, "authenticatedPage")]
        /\ tUrl' = [tUrl EXCEPT ![t] = "blank"]
        /\ tPc' = [tPc EXCEPT ![t] = "setup"]
        /\ UNCHANGED tOutcome
     \/ /\ tPc' = [tPc EXCEPT ![t] = "teardown"]
        /\ tOutcome' = [tOutcome EXCEPT ![t] = "fixtureError"]
        /\ UNCHANGED <<tStack, tUrl>>
  /\ UNCHANGED <<extVars, phase, gsVars, file, session, tKind, tCtx,
                 bodyRan, ctxVars>>

\* petsPage, lines 19-24: authenticatedPage.goto('/'), new PetsPage, use.
PetsSetup(t) ==
  /\ tPc[t] = "setup" /\ ~FullySetUp(t) /\ NextFixture(t) = "petsPage"
  /\ \/ /\ tUrl' = [tUrl EXCEPT ![t] = Landing(tCtx[t])]
        /\ tStack' = [tStack EXCEPT ![t] = Append(@, "petsPage")]
        /\ tPc' = [tPc EXCEPT ![t] = "setup"]
        /\ UNCHANGED tOutcome
     \/ /\ tPc' = [tPc EXCEPT ![t] = "teardown"]
        /\ tOutcome' = [tOutcome EXCEPT ![t] = "fixtureError"]
        /\ UNCHANGED <<tStack, tUrl>>
  /\ UNCHANGED <<extVars, phase, gsVars, file, session, tKind, tCtx,
                 bodyRan, ctxVars>>

\* Every fixture the test asks for has called use: the test body starts.
BodyStart(t) ==
  /\ tPc[t] = "setup" /\ FullySetUp(t)
  /\ tPc' = [tPc EXCEPT ![t] = "body"]
  /\ bodyRan' = [bodyRan EXCEPT ![t] = TRUE]
  /\ UNCHANGED <<extVars, phase, gsVars, file, session, tKind, tStack,
                 tCtx, tUrl, tOutcome, ctxVars>>

\* A test body step: authenticatedPage.goto('/').
BodyGoto(t) ==
  /\ tPc[t] = "body"
  /\ tUrl' = [tUrl EXCEPT ![t] = Landing(tCtx[t])]
  /\ UNCHANGED <<extVars, phase, gsVars, file, session, tPc, tKind,
                 tStack, tCtx, tOutcome, bodyRan, ctxVars>>

\* Variant: contexts sharing one cookie jar.
CookiesAfterLogoutSharedJar(c) ==
  [d \in CtxIds |-> IF ctxCookies[d] = "auth" THEN "unauth" ELSE ctxCookies[d]]

\* HomePage.logout clears the session cookie of the page's own context.
CookiesAfterLogout(c) == [ctxCookies EXCEPT ![c] = "unauth"]

\* What the logout request does to the session on the server is the
\* application's choice: it ends the session there, or only the cookie goes.
SessionAfterLogout(ends) == IF ends THEN "revoked" ELSE session

\* A test body step: HomePage.logout on the test's page: click the logout
\* control (present on a signed-in page), wait for **/login.
BodyLogout(t) ==
  /\ tPc[t] = "body" /\ tUrl[t] = "home"
  /\ ctxCookies' = CookiesAfterLogout(tCtx[t])
  /\ \E ends \in BOOLEAN : session' = SessionAfterLogout(ends)
  /\ tUrl' = [tUrl EXCEPT ![t] = "login"]
  /\ UNCHANGED <<extVars, phase, gsVars, file, tPc, tKind, tStack,
                 tCtx, tOutcome, bodyRan, ctxOpen>>

\* The test body ends: it passed, an expect failed, or it threw.
BodyEnd(t) ==
  /\ tPc[t] = "body"
  /\ \E o \in {"passed", "failed", "threw"} :
        tOutcome' = [tOutcome EXCEPT ![t] = o]
  /\ tPc' = [tPc EXCEPT ![t] = "teardown"]
  /\ UNCHANGED <<extVars, phase, gsVars, file, session, tKind, tStack,
                 tCtx, tUrl, bodyRan, ctxVars>>

\* Variant: a teardown that saves the context's storage state to the file.
TeardownSavingState(t) ==
  /\ tPc[t] = "teardown" /\ tStack[t] # <<>>
  /\ LET i == ReleaseIndex(tStack[t])
         f == tStack[t][i]
     IN /\ tStack' = [tStack EXCEPT ![t] = RemoveAt(@, i)]
        /\ IF f = "authenticatedPage"
             THEN /\ file' = StorageStateOf(ctxCookies[tCtx[t]])
                  /\ ctxOpen' = [ctxOpen EXCEPT ![tCtx[t]] = FALSE]
                  /\ ctxCookies' = [ctxCookies EXCEPT ![tCtx[t]] = "none"]
                  /\ tUrl' = [tUrl EXCEPT ![t] = "none"]
             ELSE UNCHANGED <<file, ctxOpen, ctxCookies, tUrl>>
  /\ UNCHANGED <<extVars, phase, gsVars, session, tPc, tKind, tCtx, tOutcome, bodyRan>>

\* Variant: code after use skipped when the body did not pass.
TeardownOnlyWhenPassed(t) ==
  /\ tPc[t] = "teardown" /\ tStack[t] # <<>>
  /\ LET i == ReleaseIndex(tStack[t])
         f == tStack[t][i]
     IN /\ tStack' = [tStack EXCEPT ![t] = RemoveAt(@, i)]
        /\ IF f = "authenticatedPage" /\ tOutcome[t] = "passed"
             THEN /\ ctxOpen' = [ctxOpen EXCEPT ![tCtx[t]] = FALSE]
                  /\ ctxCookies' = [ctxCookies EXCEPT ![tCtx[t]] = "none"]
                  /\ tUrl' = [tUrl EXCEPT ![t] = "none"]
             ELSE UNCHANGED <<ctxOpen, ctxCookies, tUrl>>
  /\ UNCHANGED <<extVars, phase, gsVars, file, session, tPc, tKind, tCtx, tOutcome,
                 bodyRan>>

\* The runner resumes the fixtures that called use, one at a time.  Resuming
\* authenticatedPage runs line 42, context.close(); petsPage has nothing
\* after use.  Closing a context closes its pages and drops its cookies.
Teardown(t) ==
  /\ tPc[t] = "teardown" /\ tStack[t] # <<>>
  /\ LET i == ReleaseIndex(tStack[t])
         f == tStack[t][i]
     IN /\ tStack' = [tStack EXCEPT ![t] = RemoveAt(@, i)]
        /\ IF f = "authenticatedPage"
             THEN /\ ctxOpen' = [ctxOpen EXCEPT ![tCtx[t]] = FALSE]
                  /\ ctxCookies' = [ctxCookies EXCEPT ![tCtx[t]] = "none"]
                  /\ tUrl' = [tUrl EXCEPT ![t] = "none"]
             ELSE UNCHANGED <<ctxOpen, ctxCookies, tUrl>>
  /\ UNCHANGED <<extVars, phase, gsVars, file, session, tPc, tKind,
                 tCtx, tOutcome, bodyRan>>

TestFinish(t) ==
  /\ tPc[t] = "teardown" /\ tStack[t] = <<>>
  /\ tPc' = [tPc EXCEPT ![t] = "finished"]
  /\ UNCHANGED <<extVars, phase, gsVars, file, session, tKind, tStack,
                 tCtx, tUrl, tOutcome, bodyRan, ctxVars>>

NextTests ==
  \E t \in Tests :
    \/ TestStart(t) \/ AuthBegin(t) \/ AuthNewContext(t) \/ AuthNewPage(t)
    \/ PetsSetup(t) \/ BodyStart(t) \/ BodyGoto(t) \/ BodyLogout(t)
    \/ BodyEnd(t) \/ Teardown(t) \/ TestFinish(t)

\* ------------------------------------------------------------ createNewPet
\* The application renders the controls the page object addresses; a step
\* whose outcome the code branches on, catches or bounds by a timeout has
\* every outcome.
MaxTags == 2
\* generateValidPetName: the application's minimum for a pet name.
MinNameLength == 3

Undefined == "undefined"
PetNames == {"Al", "Rex", "Bella"}
Statuses == {"available", "pending", "sold"}
TagPool == {"loyal", "guard"}
TagSeqs == UNION {[1..n -> TagPool] : n \in 0..MaxTags}

\* The petData objects a caller can pass (tags: 0 is undefined, 1 the
\* caller's array).
CpInputs ==
  [name : PetNames,
   status : Statuses \cup {Undefined},
   category : {Undefined, "", "Dog"},
   tags : {0, 1},
   imagePath : {Undefined, "", "./assets/pet-dog-1.jpg"}]

\* if (petData.status), if (petData.category), if (petData.imagePath).
Truthy(s) == s # Undefined /\ s # ""

NoArg == [name |-> Undefined, status |-> Undefined, category |-> Undefined,
          hasTags |-> FALSE, tags |-> <<>>, imagePath |-> Undefined]
NoRec == [name |-> Undefined, status |-> Undefined, category |-> Undefined,
          tags |-> 0, imagePath |-> Undefined, imageUploaded |-> FALSE]

\* Variant: createdPetData keeps the caller's array.
TagsAliased(ref) == ref

\* line 150: petData.tags ? [...petData.tags] : undefined.
TagsCopied(ref) == IF ref = 0 THEN 0 ELSE 2

\* lines 146-153: createdPetData is built from petData before any await.
CpCall ==
  /\ cpPc = "idle"
  /\ cpArg' = [name |-> cpIn.name, status |-> cpIn.status,
               category |-> cpIn.category, hasTags |-> cpIn.tags # 0,
               tags |-> IF cpIn.tags = 0 THEN <<>> ELSE cpHeap[cpIn.tags],
               imagePath |-> cpIn.imagePath]
  /\ cpRec' = [name |-> cpIn.name, status |-> cpIn.status,
               category |-> cpIn.category, tags |-> TagsCopied(cpIn.tags),
               imagePath |-> cpIn.imagePath, imageUploaded |-> FALSE]
  /\ cpHeap' = IF cpIn.tags = 0 THEN cpHeap
                ELSE [cpHeap EXCEPT ![2] = cpHeap[cpIn.tags]]
  /\ cpPc' = "form"
  /\ UNCHANGED <<cpRest, cpButton, cpIn, cpDialog, cpUi, cpAttach, cpResult>>

\* lines 179-182: per tag, the tag filled into the tag field (recorded as
\* the text filled) and one click of the add-tag button.
TagSteps(tags) ==
  [i \in 1..(2 * Len(tags)) |-> IF i % 2 = 1 THEN tags[(i + 1) \div 2] ELSE "addTag"]

\* lines 156-184: the dialog is opened, the name filled, and status,
\* category and tags are entered when petData has them.
FormSteps(in, tags) ==
  <<"petsMenu", "addNewPet", "general", "name">>
  \o (IF Truthy(in.status) THEN <<"statusDropdown", "statusOption">> ELSE <<>>)
  \o (IF Truthy(in.category) THEN <<"categorySection", "categoryName">> ELSE <<>>)
  \o (IF in.tags # 0 THEN <<"tagsSection">> \o TagSteps(tags) ELSE <<>>)

CpFillForm ==
  /\ cpPc = "form"
  /\ cpDialog' = "open"
  /\ cpUi' = cpUi \o FormSteps(cpIn, IF cpIn.tags = 0 THEN <<>> ELSE cpHeap[cpIn.tags])
  /\ cpPc' = "images"
  /\ UNCHANGED <<cpRest, cpButton, cpIn, cpHeap, cpArg, cpRec, cpAttach, cpResult>>

\* lines 187-189 and 236-238: without an image path the flag is set to
\* false; with one the images section is opened, before the try block: a
\* section that does not open ends the call.
CpOpenImages ==
  /\ cpPc = "images"
  /\ IF Truthy(cpIn.imagePath)
       THEN \/ /\ cpUi' = Append(cpUi, "imagesSection")
               /\ cpPc' = "attach"
               /\ UNCHANGED <<cpRec, cpAttach, cpResult>>
            \/ /\ cpPc' = "done" /\ cpResult' = "threw"
               /\ UNCHANGED <<cpRec, cpAttach, cpUi>>
       ELSE /\ cpRec' = [cpRec EXCEPT !.imageUploaded = FALSE]
            /\ cpAttach' = "skipped"
            /\ cpPc' = "enable"
            /\ UNCHANGED <<cpUi, cpResult>>
  /\ UNCHANGED <<cpRest, cpButton, cpIn, cpHeap, cpArg, cpDialog>>

\* Variant: no catch around the attachment.
AttachRethrown == [pc |-> "done", result |-> "threw"]

\* lines 228-231: the catch block warns, sets the flag and falls through.
AttachCaught == [pc |-> "enable", result |-> "none"]

\* Variant: the flag set whenever an image path was given.
CpAttachFlagAlways ==
  /\ cpPc = "attach"
  /\ \E outcome \in {"nofile", "raised", "done"} : cpAttach' = outcome
  /\ cpRec' = [cpRec EXCEPT !.imageUploaded = TRUE]
  /\ cpPc' = "enable"
  /\ UNCHANGED <<cpRest, cpButton, cpIn, cpHeap, cpArg, cpDialog, cpUi, cpResult>>

\* lines 191-235, the try block: the file is missing (else branch); or
\* readFileSync or page.evaluate throws (unreadable file, no drop element,
\* any other error); or the drop event is dispatched.
CpAttach ==
  /\ cpPc = "attach"
  /\ \/ /\ cpAttach' = "nofile"
        /\ cpRec' = [cpRec EXCEPT !.imageUploaded = FALSE]
        /\ cpPc' = "enable"
        /\ UNCHANGED <<cpUi, cpResult>>
     \/ /\ cpAttach' = "raised"
        /\ cpRec' = [cpRec EXCEPT !.imageUploaded = FALSE]
        /\ cpPc' = AttachCaught.pc /\ cpResult' = AttachCaught.result
        /\ UNCHANGED cpUi
     \/ /\ cpAttach' = "done"
        /\ cpRec' = [cpRec EXCEPT !.imageUploaded = TRUE]
        /\ cpUi' = Append(cpUi, "drop")
        /\ cpPc' = "enable"
        /\ UNCHANGED cpResult
  /\ UNCHANGED <<cpRest, cpButton, cpIn, cpHeap, cpArg, cpDialog>>

\* The application's form validation: CREATE stays disabled for a name
\* shorter than the minimum and is enabled for a valid name with a status;
\* for a valid name without a status it is the application's choice.
CreateEnabled(in) ==
  IF Len(in.name) < MinNameLength THEN {FALSE}
  ELSE IF Truthy(in.status) THEN {TRUE} ELSE BOOLEAN

\* Variant: CREATE clicked without the wait for its disabled attribute.
CpNoEnablementWait ==
  /\ cpPc = "enable"
  /\ \E enabled \in CreateEnabled(cpIn) :
        cpButton' = IF enabled THEN "enabled" ELSE "disabled"
  /\ cpPc' = "click" /\ cpResult' = cpResult
  /\ UNCHANGED <<cpRest, cpIn, cpHeap, cpArg, cpRec, cpDialog, cpUi, cpAttach>>

\* lines 242-248: waitForFunction returns once the button has no disabled
\* attribute, or rejects after 10 s.
CpWaitEnabled ==
  /\ cpPc = "enable"
  /\ \E enabled \in CreateEnabled(cpIn) :
        IF enabled THEN /\ cpButton' = "enabled"
                        /\ cpPc' = "click" /\ cpResult' = cpResult
                   ELSE /\ cpButton' = "disabled"
                        /\ cpPc' = "done" /\ cpResult' = "threw"
  /\ UNCHANGED <<cpRest, cpIn, cpHeap, cpArg, cpRec, cpDialog, cpUi, cpAttach>>

\* line 250: createButton.click(); the application starts saving the pet.
CpClickCreate ==
  /\ cpPc = "click"
  /\ cpUi' = Append(cpUi, "create")
  /\ cpDialog' = "closing"
  /\ cpPc' = "hide"
  /\ UNCHANGED <<cpRest, cpButton, cpIn, cpHeap, cpArg, cpRec, cpAttach, cpResult>>

\* Variant: the record is returned right after the click.
CpReturnAfterClick ==
  /\ cpPc = "hide"
  /\ cpResult' = "returned"
  /\ cpPc' = "done"
  /\ UNCHANGED <<cpRest, cpButton, cpIn, cpHeap, cpArg, cpRec, cpDialog, cpUi, cpAttach>>

\* lines 251-254: the dialog is awaited hidden, then createdPetData returned.
CpWaitHidden ==
  /\ cpPc = "hide"
  /\ cpDialog' = "hidden"
  /\ cpResult' = "returned"
  /\ cpPc' = "done"
  /\ UNCHANGED <<cpRest, cpButton, cpIn, cpHeap, cpArg, cpRec, cpUi, cpAttach>>

\* After the call the caller still holds petData and its tags array and
\* can write to both.
CallerMutates ==
  /\ cpPc = "done" /\ cpResult = "returned"
  /\ \/ /\ \E n \in PetNames \ {cpIn.name} : cpIn' = [cpIn EXCEPT !.name = n]
        /\ UNCHANGED cpHeap
     \/ /\ cpIn.tags # 0
        /\ \E ts \in TagSeqs \ {cpHeap[cpIn.tags]} :
              cpHeap' = [cpHeap EXCEPT ![cpIn.tags] = ts]
        /\ UNCHANGED cpIn
  /\ UNCHANGED <<cpRest, cpButton, cpPc, cpArg, cpRec, cpDialog, cpUi, cpAttach, cpResult>>

NextCreatePet ==
  \/ CpCall \/ CpFillForm \/ CpOpenImages \/ CpAttach \/ CpWaitEnabled
  \/ CpClickCreate \/ CpWaitHidden \/ CallerMutates

\* createNewPet about to be called with petData in and caller's tags array ts.
CpAt(in, ts) ==
  /\ cpPc = "idle" /\ cpIn = in
  /\ cpHeap = [a \in 1..2 |-> IF a = 1 THEN ts ELSE <<>>]
  /\ cpArg = NoArg /\ cpRec = NoRec
  /\ cpDialog = "none" /\ cpUi = <<>> /\ cpAttach = "none" /\ cpResult = "none"
  /\ cpButton = "unknown"

CpIdle ==
  CpAt([name |-> "Rex", status |-> Undefined, category |-> Undefined,
        tags |-> 0, imagePath |-> Undefined], <<>>)

\* -------------------------------------------------------- getNameFieldError
MaxTextLen == 3
\* nameFieldError.waitFor({ state: 'visible', timeout: 2000 })
NameErrorTimeout == 2000

Never == -1
Delays == {0, 1000, 2000, 3000}
Chars == {" ", "x"}
Texts == UNION {[1..n -> Chars] : n \in 0..MaxTextLen}
Null == [isNull |-> TRUE, chars |-> <<>>]
Str(cs) == [isNull |-> FALSE, chars |-> cs]

\* String.prototype.trim: white space removed from both ends.
RECURSIVE TrimStart(_)
TrimStart(cs) ==
  IF cs = <<>> THEN cs
  ELSE IF Head(cs) = " " THEN TrimStart(Tail(cs)) ELSE cs
RECURSIVE TrimEnd(_)
TrimEnd(cs) ==
  IF cs = <<>> THEN cs
  ELSE IF cs[Len(cs)] = " " THEN TrimEnd(SubSeq(cs, 1, Len(cs) - 1)) ELSE cs
Trim(cs) == TrimEnd(TrimStart(cs))

\* Variant: the text returned as read.
NameErrorValueAsRead(t) == IF t.isNull \/ t.chars = <<>> THEN Null ELSE t

\* line 324: (await textContent())?.trim() || null.
NameErrorValue(t) ==
  IF t.isNull THEN Null
  ELSE IF Trim(t.chars) = <<>> THEN Null ELSE Str(Trim(t.chars))

\* Whether waitFor sees the element visible before its timeout; an element
\* turning visible as the timeout expires can go either way.
VisibleInTime ==
  IF neAppearsAt = Never \/ neAppearsAt > NameErrorTimeout THEN {FALSE}
  ELSE IF neAppearsAt < NameErrorTimeout THEN {TRUE} ELSE BOOLEAN

\* lines 322-323 and 325-327: waitFor resolves, or rejects on the timeout
\* and the catch returns null.
NeWaitVisible ==
  /\ nePc = "idle"
  /\ \E seen \in VisibleInTime :
        IF seen THEN nePc' = "visible" /\ UNCHANGED <<neResult, neOutcome>>
                ELSE nePc' = "done" /\ neResult' = Null /\ neOutcome' = "returned"
  /\ UNCHANGED <<neRest, neText, neAppearsAt, neRead>>

\* lines 324-327: textContent resolves and its value is trimmed, or it
\* rejects (the element went away) and the catch returns null.
NeTextContent ==
  /\ nePc = "visible"
  /\ \/ neRead' = "ok" /\ neResult' = NameErrorValue(neText)
     \/ neRead' = "rejected" /\ neResult' = Null
  /\ neOutcome' = "returned"
  /\ nePc' = "done"
  /\ UNCHANGED <<neRest, neText, neAppearsAt>>

NextNameError == NeWaitVisible \/ NeTextContent

NeAt(t, d) ==
  /\ nePc = "idle" /\ neText = t /\ neAppearsAt = d
  /\ neRead = "none" /\ neResult = Null /\ neOutcome = "none"

NeIdle == NeAt(Null, Never)

\* ------------------------------------------------------ CreatedPetsTracker
\* Tests of the Add Pet file a worker runs, one after the other.
MaxFileTests == 2
\* generateMultipleRandomPets(3): the most pets one test creates and stores.
PetsPerTest == 3

\* The records createNewPet returned, as storePet receives them.
Created == {"petA", "petB", "petC"}

\* Variant: clearAllPets leaving the array as it is.
ClearedKeeping(pets) == pets

\* clearAllPets: this.createdPets = [].
Cleared(pets) == <<>>

\* storePet: this.createdPets.push(petData).
Stored(pets, p) == Append(pets, p)

\* getCount: this.createdPets.length.
GetCount == Len(trPets)

\* test.beforeEach: CreatedPetsTracker.clearAllPets().
TrBeforeEach ==
  /\ trPc = "between" /\ trRan < MaxFileTests
  /\ trPets' = Cleared(trPets)
  /\ trSince' = <<>>
  /\ trRan' = trRan + 1
  /\ trPc' = "hooked"
  /\ UNCHANGED <<trRest, trAtStart>>

\* The test body starts after its beforeEach hook.
TrBodyStart ==
  /\ trPc = "hooked"
  /\ trAtStart' = GetCount
  /\ trPc' = "body"
  /\ UNCHANGED <<trRest, trPets, trSince, trRan>>

\* CreatedPetsTracker.storePet(createdPet) in a test body.
TrStorePet ==
  /\ trPc = "body" /\ Len(trSince) < PetsPerTest
  /\ \E p \in Created :
        /\ trPets' = Stored(trPets, p)
        /\ trSince' = Append(trSince, p)
  /\ UNCHANGED <<trRest, trPc, trAtStart, trRan>>

\* The body ends, after all of its pets or at a step that threw; afterEach
\* logs getCount().
TrAfterEach ==
  /\ trPc = "body"
  /\ trPc' = "between"
  /\ UNCHANGED <<trRest, trPets, trSince, trAtStart, trRan>>

NextTracker == TrBeforeEach \/ TrBodyStart \/ TrStorePet \/ TrAfterEach

\* A worker process that has loaded the module: createdPets = [].
TrIdle ==
  /\ trPets = <<>> /\ trSince = <<>> /\ trPc = "between"
  /\ trAtStart = 0 /\ trRan = 0

\* ------------------------------------------------------------ DataProvider
Roles == {"admin", "user", "guest"}
NoUser == [defined |-> FALSE, username |-> "", password |-> ""]
UserRecords ==
  [defined : {TRUE}, username : {"admin", "Admin "},
   password : {"password123", " pw"}]

\* The users object of testData.json: always an admin, possibly a user,
\* no guest; every stored name and password is a non-empty string.
UsersFixtures ==
  {u \in [Roles -> UserRecords \cup {NoUser}] :
     u["admin"].defined /\ ~u["guest"].defined}

\* Variant: the admin record whatever the role.
GetUserAdmin(users, type) == users["admin"]

\* getUser: JSON.parse(readFileSync(testData.json)).users[type]; undefined
\* for a key the object does not have.
GetUser(users, type) == users[type]

DpGetUser ==
  /\ dpPc = "idle"
  /\ dpResult' = GetUser(dpUsers, dpRole)
  /\ dpPc' = "done"
  /\ UNCHANGED <<dpRest, dpUsers, dpRole>>

DpAt(users, role) ==
  dpUsers = users /\ dpRole = role /\ dpPc = "idle" /\ dpResult = NoUser

DpIdle ==
  DpAt([r \in Roles |-> IF r = "admin"
                          THEN [defined |-> TRUE, username |-> "admin",
                                password |-> "password123"]
                          ELSE NoUser], "admin")

\* ---------------------------------------------------------------- PetFaker
\* generateValidTags: tag.length >= 3, and { min: 1, max: 3 }.
MinTagLength == 3
MinTagCount == 1
MaxTagCount == 3

PetTypes == {"Dog", "Cat", "Bird", "Rabbit", "Fish", "Hamster"}

\* PET_TYPES[type].images
TypeImages(type) ==
  CASE type = "Dog" -> {"./assets/pet-dog-1.jpg", "./assets/pet-dog-2.jpg"}
    [] type = "Cat" -> {"./assets/pet-cat-1.jpg", "./assets/pet-cat-2.jpg"}
    [] type = "Bird" -> {"./assets/pet-bird-1.jpg"}
    [] type = "Rabbit" -> {"./assets/pet-rabbit-1.jpg"}
    [] type = "Fish" -> {"./assets/pet-fish-1.jpg"}
    [] type = "Hamster" -> {"./assets/pet-hamster-1.jpg"}

\* PET_TYPES[type].tags
TypeTags(type) ==
  CASE type = "Dog" ->
         {"loyal", "energetic", "friendly", "trained", "outdoor", "guard"}
    [] type = "Cat" ->
         {"independent", "quiet", "indoor", "cuddly", "playful", "clean"}
    [] type = "Bird" ->
         {"colorful", "vocal", "intelligent", "social", "active", "musical"}
    [] type = "Rabbit" ->
         {"gentle", "quiet", "soft", "indoor", "herbivore", "hopping"}
    [] type = "Fish" ->
         {"peaceful", "aquatic", "colorful", "low-maintenance", "decorative",
          "swimming"}
    [] type = "Hamster" ->
         {"small", "active", "nocturnal", "curious", "furry", "pocket-sized"}

\* faker.person.firstName(): first names, some of them of two letters.
FirstNames == {"Al", "Jo", "Max", "Bella"}

\* Variant: { min: 0, max: 3 }.
TagCountsFromZero == 0..MaxTagCount

\* faker.helpers.arrayElements(validTags, { min: 1, max: 3 })
TagCounts == MinTagCount..MaxTagCount

\* arrayElements: that many elements of the array, each position at most
\* once, in any order.
ArrayElements(elems, counts) ==
  {f \in UNION {[1..n -> elems] : n \in counts} :
     \A i, j \in DOMAIN f : i # j => f[i] # f[j]}

\* generateValidTags(availableTags)
GenerateValidTags(availableTags) ==
  ArrayElements({tag \in availableTags : Len(tag) >= MinTagLength}, TagCounts)

NoPet == [name |-> Undefined, status |-> Undefined, category |-> Undefined,
          tags |-> <<>>, imagePath |-> Undefined]

\* lines 113-115: selectedType = arrayElement(Object.keys(PET_TYPES)).
PfPickType ==
  /\ pfPc = "idle"
  /\ \E type \in PetTypes : pfType' = type
  /\ pfPc' = "typed"
  /\ UNCHANGED <<pfRest, pfPet>>

\* generateValidPetName: a first name is drawn, and drawn again while it
\* is shorter than 3 characters.
PfDrawName ==
  /\ pfPc = "typed"
  /\ \E name \in FirstNames :
        /\ pfPet' = [pfPet EXCEPT !.name = name]
        /\ pfPc' = IF Len(name) < MinNameLength THEN "typed" ELSE "named"
  /\ UNCHANGED <<pfRest, pfType>>

\* lines 117-123: status, category, tags and image of the record returned.
PfReturn ==
  /\ pfPc = "named"
  /\ \E status \in Statuses, tags \in GenerateValidTags(TypeTags(pfType)),
        image \in TypeImages(pfType) :
        pfPet' = [pfPet EXCEPT !.status = status, !.category = pfType,
                               !.tags = tags, !.imagePath = image]
  /\ pfPc' = "done"
  /\ UNCHANGED <<pfRest, pfType>>

NextPetFaker == PfPickType \/ PfDrawName \/ PfReturn

PfIdle == pfPc = "idle" /\ pfType = "Dog" /\ pfPet = NoPet

\* ---------------------------------------------------------------- pet table
\* The pets a test supplies to createNewPet.
LsPets == [name : {"Rex", "Bella"}, category : {"Dog"}, status : Statuses]
LsNone == [name |-> Undefined, category |-> Undefined, status |-> Undefined]

\* createNewPet: the application stores the pet under the next id.
LsCreate(t) ==
  /\ lsPc[t] = "start"
  /\ \E pet \in LsPets :
        /\ lsStore' = Append(lsStore, pet)
        /\ lsMine' = [lsMine EXCEPT ![t] = pet]
  /\ lsPc' = [lsPc EXCEPT ![t] = "created"]
  /\ UNCHANGED <<lsRest, lsSeen>>

\* The table after a search by status, sorted by id descending
\* (reverseTableByPetId): getFirstPetRowCell reads its first row.
FirstRow(status) ==
  LET ids == {i \in DOMAIN lsStore : lsStore[i].status = status}
      top == CHOOSE i \in ids : \A j \in ids : j <= i
  IN IF ids = {} THEN LsNone ELSE lsStore[top]

\* The test searches by the status it supplied, sorts, and reads row one.
LsSearchSortRead(t) ==
  /\ lsPc[t] = "created"
  /\ lsSeen' = [lsSeen EXCEPT ![t] = FirstRow(lsMine[t].status)]
  /\ lsPc' = [lsPc EXCEPT ![t] = "read"]
  /\ UNCHANGED <<lsRest, lsStore, lsMine>>

NextPetTable == \E t \in Tests : LsCreate(t) \/ LsSearchSortRead(t)

LsIdle ==
  /\ lsStore = <<>>
  /\ lsPc = [t \in Tests |-> "start"]
  /\ lsMine = [t \in Tests |-> LsNone]
  /\ lsSeen = [t \in Tests |-> LsNone]

\* ------------------------------------------------- navigation and menus
NavOps == {"goToPets", "goToHome", "logout", "openPetsMenu", "selectFindPet",
           "selectAddNewPet", "selectAddNewView"}
Urls == {"home", "pets", "login"}

\* Variant: a click followed by a fixed delay.
StepsFixedDelay(op) == <<"click", "delay">>

\* The awaited statements of each method: a click, then waitForLoadState
\* ('networkidle'), waitForURL, waitForSelector or waitFor on the menu
\* content or the dialog container.
Steps(op) ==
  CASE op = "goToPets" -> <<"click", "networkidle", "url:pets">>
    [] op = "goToHome" -> <<"click", "networkidle", "url:home">>
    [] op = "logout" -> <<"click", "networkidle", "url:login">>
    [] op = "openPetsMenu" -> <<"click", "menu">>
    [] op = "selectFindPet" -> <<"click", "menu", "click", "dialog">>
    [] op = "selectAddNewPet" -> <<"click", "menu", "click", "dialog">>
    [] op = "selectAddNewView" -> <<"click", "menu", "click", "networkidle">>

\* What a wait waits for; waitForLoadState resolves at once on a document
\* that has reached the state already.
WaitHolds(step) ==
  CASE step = "networkidle" -> nvLoaded
    [] step = "url:pets" -> nvUrl = "pets"
    [] step = "url:home" -> nvUrl = "home"
    [] step = "url:login" -> nvUrl = "login"
    [] step = "menu" -> nvMenu
    [] step = "dialog" -> nvDialog
    [] OTHER -> TRUE

NvRunning == nvResult = "none" /\ nvTodo # <<>>

\* What is left after the statement at the head, and the return after the
\* last one.
NvAdvance ==
  /\ nvTodo' = Tail(nvTodo)
  /\ nvResult' = IF Tail(nvTodo) = <<>> THEN "returned" ELSE "none"

\* locator.click(): a click on an open menu's item closes the menu.
NvClick ==
  /\ NvRunning /\ Head(nvTodo) = "click"
  /\ NvAdvance
  /\ nvMenu' = FALSE
  /\ UNCHANGED <<nvRest, nvOp, nvUrl, nvLoaded, nvDialog>>

\* A wait resolves when what it waits for holds.
NvWait ==
  /\ NvRunning /\ Head(nvTodo) # "click" /\ WaitHolds(Head(nvTodo))
  /\ NvAdvance
  /\ UNCHANGED <<nvRest, nvOp, nvUrl, nvLoaded, nvMenu, nvDialog>>

\* A wait rejects on its timeout and the method throws.
NvTimeout ==
  /\ NvRunning /\ Head(nvTodo) # "click" /\ ~WaitHolds(Head(nvTodo))
  /\ nvResult' = "threw"
  /\ UNCHANGED <<nvRest, nvOp, nvTodo, nvUrl, nvLoaded, nvMenu, nvDialog>>

\* The application, while the method runs: it goes to a route, with or
\* without loading a new document; the network goes idle; the menu or the
\* dialog shows.
AppRoute ==
  /\ NvRunning
  /\ \E u \in Urls, reload \in BOOLEAN :
        /\ nvUrl' = u
        /\ nvLoaded' = IF reload THEN FALSE ELSE nvLoaded
  /\ UNCHANGED <<nvRest, nvOp, nvTodo, nvMenu, nvDialog, nvResult>>

AppNetworkIdle ==
  /\ NvRunning /\ ~nvLoaded
  /\ nvLoaded' = TRUE
  /\ UNCHANGED <<nvRest, nvOp, nvTodo, nvUrl, nvMenu, nvDialog, nvResult>>

AppShowMenu ==
  /\ NvRunning /\ ~nvMenu
  /\ nvMenu' = TRUE
  /\ UNCHANGED <<nvRest, nvOp, nvTodo, nvUrl, nvLoaded, nvDialog, nvResult>>

AppShowDialog ==
  /\ NvRunning /\ ~nvDialog
  /\ nvDialog' = TRUE
  /\ UNCHANGED <<nvRest, nvOp, nvTodo, nvUrl, nvLoaded, nvMenu, nvResult>>

NextNavigation ==
  \/ NvClick \/ NvWait \/ NvTimeout
  \/ AppRoute \/ AppNetworkIdle \/ AppShowMenu \/ AppShowDialog

\* The method op called on a loaded page showing url.
NvAt(op, url) ==
  /\ nvOp = op /\ nvTodo = Steps(op) /\ nvUrl = url
  /\ nvLoaded = TRUE /\ nvMenu = FALSE /\ nvDialog = FALSE
  /\ nvResult = "none"

NvIdle == NvAt("goToHome", "home")

\* ------------------------------------------------------------- base URL
DefaultBaseUrl == "https://training.testifi.io"
Hosts == {DefaultBaseUrl, "https://training.testifi.io/",
          "http://localhost:4200", "http://localhost:4200/"}

\* BASE_URL is a host, the empty string, or not set.
EnvValues == Hosts \cup {"", Undefined}

\* a + b of JavaScript on a string or undefined and a string: undefined
\* reads "undefined".
Concat(a, b) == <<a, b>>

\* dotenv.config(): a variable of the .env file is set unless the
\* environment has it already.
DotenvConfig(shell, dotenv) == IF shell # Undefined THEN shell ELSE dotenv

\* baseURL: process.env.BASE_URL || 'https://training.testifi.io'
ConfigBaseUrl(env) == IF Truthy(env) THEN env ELSE DefaultBaseUrl

\* The runner loads playwright.config.ts.
BuLoadConfig ==
  /\ buPc = "start"
  /\ buEnv' = DotenvConfig(buShell, buDotenv)
  /\ buConfig' = ConfigBaseUrl(buEnv')
  /\ buPc' = "configured"
  /\ UNCHANGED <<buRest, buShell, buDotenv, buSetupUrl, buTestUrl>>

\* globalSetup: page.goto(process.env.BASE_URL + '/login'), in the runner's
\* process, on a context made without a baseURL.
BuSetupGoto ==
  /\ buPc = "configured"
  /\ buSetupUrl' = Concat(buEnv, "/login")
  /\ buPc' = "setup"
  /\ UNCHANGED <<buRest, buShell, buDotenv, buEnv, buConfig, buTestUrl>>

\* petsPage fixture: authenticatedPage.goto('/') on a context that has the
\* configuration's baseURL.
BuFixtureGoto ==
  /\ buPc = "setup"
  /\ buTestUrl' = Concat(buConfig, "/")
  /\ buPc' = "tests"
  /\ UNCHANGED <<buRest, buShell, buDotenv, buEnv, buConfig, buSetupUrl>>

NextBaseUrl == BuLoadConfig \/ BuSetupGoto \/ BuFixtureGoto

\* The runner started with BASE_URL as shell has it and .env as dotenv has it.
BuAt(shell, dotenv) ==
  /\ buShell = shell /\ buDotenv = dotenv
  /\ buEnv = shell /\ buConfig = Undefined
  /\ buSetupUrl = Undefined /\ buTestUrl = Undefined
  /\ buPc = "start"

BuIdle == BuAt(Undefined, Undefined)

\* ------------------------------------------- the page fixtures of one test
PageFixtures == {"page", "authenticatedPage"}
PageRequests == {<<"page">>, <<"authenticatedPage">>,
                 <<"page", "authenticatedPage">>,
                 <<"authenticatedPage", "page">>}

\* Variant: a configuration without storageState.
ConfigStorageStateNone(f) == "unauth"

\* use.storageState: 'auth-state.json' of the configuration: the built-in
\* context starts with what the file holds.
ConfigStorageState(f) == f

\* browser.newContext({ storageState: 'auth-state.json' }) of
\* authenticatedPage.
FixtureStorageState(f) == f

BpNextFixture == bpWants[bpDone + 1]

\* browser.newContext() for fixture fx: a context of its own, starting with
\* the cookies seed; the call rejects on a file it cannot load.
BpNewContext(fx, seed) ==
  /\ bpPc = "setup" /\ bpDone < Len(bpWants) /\ BpNextFixture = fx
  /\ IF Loadable(bpFile)
       THEN /\ bpNext' = bpNext + 1
            /\ bpCtx' = [bpCtx EXCEPT ![fx] = bpNext + 1]
            /\ bpSeed' = [bpSeed EXCEPT ![fx] = seed]
            /\ bpCookies' = [bpCookies EXCEPT ![fx] = seed]
            /\ bpDone' = bpDone + 1
            /\ UNCHANGED bpPc
       ELSE /\ bpPc' = "fixtureError"
            /\ UNCHANGED <<bpNext, bpCtx, bpSeed, bpCookies, bpDone>>
  /\ UNCHANGED <<bpRest, bpFile, bpWants>>

\* The built-in page fixture behind loginPage.
BpBuiltinPage == BpNewContext("page", ConfigStorageState(bpFile))

\* The authenticatedPage fixture.
BpAuthenticatedPage ==
  BpNewContext("authenticatedPage", FixtureStorageState(bpFile))

BpBodyStart ==
  /\ bpPc = "setup" /\ bpDone = Len(bpWants)
  /\ bpPc' = "body"
  /\ UNCHANGED <<bpRest, bpFile, bpWants, bpDone, bpNext, bpCtx, bpSeed,
                 bpCookies>>

\* The body signs in through loginPage, or signs out on either page.
BpBodyLogin ==
  /\ bpPc = "body" /\ bpCtx["page"] # 0
  /\ bpCookies' = [bpCookies EXCEPT !["page"] = "auth"]
  /\ UNCHANGED <<bpRest, bpFile, bpWants, bpDone, bpNext, bpCtx, bpSeed, bpPc>>

BpBodyLogout ==
  /\ bpPc = "body"
  /\ \E fx \in PageFixtures :
        /\ bpCtx[fx] # 0
        /\ bpCookies' = [bpCookies EXCEPT ![fx] = "unauth"]
  /\ UNCHANGED <<bpRest, bpFile, bpWants, bpDone, bpNext, bpCtx, bpSeed, bpPc>>

BpBodyEnd ==
  /\ bpPc = "body"
  /\ bpPc' = "teardown"
  /\ UNCHANGED <<bpRest, bpFile, bpWants, bpDone, bpNext, bpCtx, bpSeed,
                 bpCookies>>

\* The fixtures are torn down last first; each closes its context.
BpTeardown ==
  /\ bpPc = "teardown" /\ bpDone > 0
  /\ bpDone' = bpDone - 1
  /\ UNCHANGED <<bpRest, bpFile, bpWants, bpNext, bpCtx, bpSeed, bpCookies,
                 bpPc>>

BpFinish ==
  /\ bpPc = "teardown" /\ bpDone = 0
  /\ bpPc' = "finished"
  /\ UNCHANGED <<bpRest, bpFile, bpWants, bpDone, bpNext, bpCtx, bpSeed,
                 bpCookies>>

NextPageFixtures ==
  \/ BpBuiltinPage \/ BpAuthenticatedPage \/ BpBodyStart
  \/ BpBodyLogin \/ BpBodyLogout \/ BpBodyEnd \/ BpTeardown \/ BpFinish

\* A test asking for wants is handed to a worker while auth-state.json is f.
BpAt(f, wants) ==
  /\ bpFile = f /\ bpWants = wants /\ bpDone = 0 /\ bpNext = 0
  /\ bpCtx = [fx \in PageFixtures |-> 0]
  /\ bpSeed = [fx \in PageFixtures |-> "none"]
  /\ bpCookies = [fx \in PageFixtures |-> "none"]
  /\ bpPc = "setup"

BpIdle == BpAt("auth", <<"authenticatedPage">>)

\* ---------------------------------------------------------- specifications
InitTests ==
  /\ tPc = [t \in Tests |-> "pending"]
  /\ tKind = [t \in Tests |-> "none"]
  /\ tStack = [t \in Tests |-> <<>>]
  /\ tCtx = [t \in Tests |-> 0]
  /\ tUrl = [t \in Tests |-> "none"]
  /\ tOutcome = [t \in Tests |-> "none"]
  /\ bodyRan = [t \in Tests |-> FALSE]
  /\ ctxCookies = [c \in CtxIds |-> "none"]
  /\ ctxOpen = [c \in CtxIds |-> FALSE]

InitSetup ==
  /\ gsPc = "init" /\ gsRuns = 0 /\ gsErr = FALSE /\ browserOpen = FALSE
  /\ gsCtx = "none" /\ gsUrl = "none" /\ classified = "none"
  /\ attempts = 0 /\ writes = 0 /\ log = {}

\* The suite at rest while one of its parts is exercised on its own.
CoreIdle ==
  /\ phase = "workers"
  /\ InitSetup /\ InitTests
  /\ file = "auth" /\ session = "valid"

\* Every part of the suite but the named one is at rest.
OthersIdle(part) ==
  /\ IF part = "suite" THEN TRUE ELSE CoreIdle
  /\ IF part = "createNewPet" THEN TRUE ELSE CpIdle
  /\ IF part = "getNameFieldError" THEN TRUE ELSE NeIdle
  /\ IF part = "CreatedPetsTracker" THEN TRUE ELSE TrIdle
  /\ IF part = "DataProvider" THEN TRUE ELSE DpIdle
  /\ IF part = "PetFaker" THEN TRUE ELSE PfIdle
  /\ IF part = "petTable" THEN TRUE ELSE LsIdle
  /\ IF part = "navigation" THEN TRUE ELSE NvIdle
  /\ IF part = "baseURL" THEN TRUE ELSE BuIdle
  /\ IF part = "page" THEN TRUE ELSE BpIdle

\* A suite run under playwright.config.ts: auth-state.json is whatever an
\* earlier run or a fresh checkout left.
Init ==
  /\ phase = "setup"
  /\ InitSetup /\ InitTests
  /\ OthersIdle("suite")
  /\ file \in FileStates
  /\ session = "none"

Next == NextSetup \/ RunnerStartWorkers \/ RunnerAbort \/ NextTests

Spec == Init /\ [][Next]_vars

\* The fixture layer on its own, against any auth-state.json: the file as a
\* test finds it when globalSetup did not produce it.
InitFixtures ==
  /\ phase = "workers"
  /\ InitSetup /\ InitTests
  /\ OthersIdle("suite")
  /\ file \in FileStates
  /\ session \in (IF file = "auth" THEN {"valid", "revoked"} ELSE {"none"})

SpecFixtures == InitFixtures /\ [][NextTests]_vars

\* One call of createNewPet for every petData, then the caller's writes.
InitCreatePet ==
  /\ OthersIdle("createNewPet")
  /\ \E in \in CpInputs, ts \in TagSeqs :
        /\ in.tags = 0 => ts = <<>>
        /\ CpAt(in, ts)

SpecCreatePet == InitCreatePet /\ [][NextCreatePet]_vars

\* One call of getNameFieldError for every text of the error element and
\* every time at which it shows.
InitNameError ==
  /\ OthersIdle("getNameFieldError")
  /\ \E t \in {Null} \cup {Str(cs) : cs \in Texts}, d \in Delays \cup {Never} :
        NeAt(t, d)

SpecNameError == InitNameError /\ [][NextNameError]_vars

\* A worker running tests of the Add Pet file.
InitTracker == OthersIdle("CreatedPetsTracker") /\ TrIdle
SpecTracker == InitTracker /\ [][NextTracker]_vars

\* One call of getUser for every fixture and role.
InitDataProvider ==
  /\ OthersIdle("DataProvider")
  /\ \E users \in UsersFixtures, role \in Roles : DpAt(users, role)

SpecDataProvider == InitDataProvider /\ [][DpGetUser]_vars

\* One call of generateRandomPet.
InitPetFaker == OthersIdle("PetFaker") /\ PfIdle
SpecPetFaker == InitPetFaker /\ [][NextPetFaker]_vars

\* Tests running side by side against the one application.
InitPetTable == OthersIdle("petTable") /\ LsIdle
SpecPetTable == InitPetTable /\ [][NextPetTable]_vars

\* One call of each navigation or menu method, from every page.
InitNavigation ==
  /\ OthersIdle("navigation")
  /\ \E op \in NavOps, url \in Urls : NvAt(op, url)

SpecNavigation == InitNavigation /\ [][NextNavigation]_vars

\* The runner started with every setting of BASE_URL.
InitBaseUrl ==
  /\ OthersIdle("baseURL")
  /\ \E shell \in EnvValues, dotenv \in EnvValues : BuAt(shell, dotenv)

SpecBaseUrl == InitBaseUrl /\ [][NextBaseUrl]_vars

\* One test and its page fixtures, over every state of auth-state.json.
InitPageFixtures ==
  /\ OthersIdle("page")
  /\ \E f \in FileStates, wants \in PageRequests : BpAt(f, wants)

SpecPageFixtures == InitPageFixtures /\ [][NextPageFixtures]_vars

\* createNewPet awaits its steps one after the other; each await settles.
CpStep ==
  \/ CpCall \/ CpFillForm \/ CpOpenImages \/ CpAttach \/ CpWaitEnabled
  \/ CpClickCreate \/ CpWaitHidden
SpecCreatePetFair == SpecCreatePet /\ WF_vars(CpStep)

\* globalSetup invoked again and again, no test in between.
SpecSetupTwice == Init /\ [][NextSetup \/ SuiteRerun]_vars

\* ------------------------------------------------------------- properties
Range(f) == {f[i] : i \in DOMAIN f}
TestState(t) == <<tPc[t], tKind[t], tStack[t], tCtx[t], tUrl[t], tOutcome[t],
                  bodyRan[t]>>
HoldsContext(t) == tCtx[t] # 0
WriterAtWork == gsPc \in {"saveSuccess", "saveFailure", "catch"}

\* C1: once globalSetup has finished, by returning or by throwing,
\* auth-state.json exists.
C1_SnapshotExistsAfterSetup == GsFinished => file # "absent"

\* C2: an exception raised inside the try block (navigating, logging in,
\* waiting, persisting) is caught and globalSetup then completes normally: it
\* never throws once the catch block was entered.
C2_CaughtNeverPropagates == "errorDuringLogin" \in log => gsPc # "threw"

\* C3: once the login attempt was classified (success or failure branch),
\* globalSetup completes without throwing and with exactly one snapshot write,
\* made after the classification.
C3_ClassifiedWritesOnce ==
  /\ gsPc = "settled" => attempts = 0
  /\ (GsFinished /\ classified # "none") => (gsPc = "returned" /\ writes = 1)

\* C4: globalSetup runs at most once, and when a worker runs (a test has
\* left "pending") it ran exactly once and has completed: it returned, its
\* snapshot write is done and its browser is closed.
C4_SetupOnceBeforeWorkers ==
  /\ gsRuns <= 1
  /\ (phase = "workers" \/ \E t \in Tests : tPc[t] # "pending")
       => (gsRuns = 1 /\ gsPc = "returned" /\ writes >= 1 /\ ~browserOpen)

C4_Witness ==
  /\ phase = "workers" /\ gsRuns = 1 /\ writes = 1
  /\ \E t \in Tests : tPc[t] = "authCtx" /\ ctxCookies[tCtx[t]] = file

\* C5: auth-state.json changes only in a snapshot write of globalSetup; while
\* a fixture reads it globalSetup has returned, so no read overlaps a write;
\* a test body that fails or throws changes neither the file nor any context;
\* and a context changes only in a step of the test that owns it, which
\* leaves every other test as it was.
C5_WrittenOnceThenRead ==
  [][ /\ file' # file => (phase = "setup" /\ WriterAtWork)
      /\ \A t \in Tests :
           (tPc[t] = "authRead" \/ tPc'[t] = "authRead")
             => (gsPc = "returned" /\ gsPc' = "returned")
      /\ \A t \in Tests :
           (tOutcome[t] = "none" /\ tOutcome'[t] \in {"failed", "threw"})
             => /\ file' = file /\ ctxCookies' = ctxCookies /\ ctxOpen' = ctxOpen
                /\ \A u \in Tests \ {t} : TestState(u)' = TestState(u)
      /\ \A c \in CtxIds :
           (ctxCookies'[c] # ctxCookies[c] \/ ctxOpen'[c] # ctxOpen[c])
             => \E t \in Tests :
                  /\ tCtx'[t] = c
                  /\ TestState(t)' # TestState(t)
                  /\ \A u \in Tests \ {t} : TestState(u)' = TestState(u)
    ]_vars

C5_Witness ==
  /\ writes >= 1
  /\ \E t, u \in Tests :
       /\ tPc[t] = "authRead"
       /\ tOutcome[u] = "failed" /\ tPc[u] = "finished"

\* C6: a test that asked for authenticatedPage and whose body ran has its
\* context open while the body runs and closed once the test is finished,
\* whatever the outcome of the body.
C6_ContextClosedAfterBody ==
  \A t \in Tests :
    /\ tPc[t] = "body" => (HoldsContext(t) /\ ctxOpen[tCtx[t]])
    /\ (tPc[t] = "finished" /\ bodyRan[t])
         => (HoldsContext(t) /\ ~ctxOpen[tCtx[t]])

C6_Witness ==
  \E t \in Tests :
    /\ tPc[t] = "finished" /\ bodyRan[t] /\ tOutcome[t] = "threw"
    /\ ~ctxOpen[tCtx[t]]

\* C7: in a test that asks for petsPage, petsPage is set up only on top of an
\* acquired authenticatedPage (context open, page there) and is released
\* before authenticatedPage closes the context: while the PetsPage object
\* exists, and while the body runs, the context is open.
C7_NestedFixtureScopes ==
  \A t \in Tests :
    /\ (tPc[t] = "setup" /\ ~FullySetUp(t) /\ NextFixture(t) = "petsPage")
         => (tStack[t] = <<"authenticatedPage">> /\ ctxOpen[tCtx[t]]
             /\ tUrl[t] # "none")
    /\ "petsPage" \in Range(tStack[t])
         => (tStack[t] = <<"authenticatedPage", "petsPage">>
             /\ ctxOpen[tCtx[t]])
    /\ (HoldsContext(t) /\ ~ctxOpen[tCtx[t]])
         => ("petsPage" \notin Range(tStack[t]) /\ tPc[t] # "body")

C7_Witness ==
  \E t \in Tests :
    /\ tKind[t] = "pets" /\ bodyRan[t] /\ tPc[t] = "teardown"
    /\ tStack[t] = <<"authenticatedPage">> /\ ctxOpen[tCtx[t]]

\* C8: no two tests ever hold the same context, whether they run at the same
\* time or one after the other, and a test that is using its context (page
\* being opened, fixtures set up, body running) finds it open.
C8_OwnContextPerTest ==
  /\ \A t, u \in Tests :
       (t # u /\ HoldsContext(t) /\ HoldsContext(u)) => tCtx[t] # tCtx[u]
  /\ \A t \in Tests :
       (HoldsContext(t) /\ tPc[t] \in {"authCtx", "setup", "body"})
         => ctxOpen[tCtx[t]]

C8_Witness ==
  \E t, u \in Tests :
    /\ t # u /\ tPc[t] = "body" /\ tPc[u] = "body" /\ tCtx[t] # tCtx[u]
    /\ ctxOpen[tCtx[t]] /\ ctxOpen[tCtx[u]]

\* One test's HomePage.logout step.
LogoutBy(u) ==
  /\ tPc[u] = "body" /\ tUrl[u] = "home" /\ tUrl'[u] = "login"
  /\ ctxCookies[tCtx[u]] = "auth" /\ ctxCookies'[tCtx[u]] = "unauth"

Sibling(t, u) == t # u /\ tPc[t] = "body" /\ ctxCookies[tCtx[t]] = "auth"

C10_MissingSnapshotFailsFast ==
  [][ ~Loadable(file) =>
        /\ file' = file /\ session' = session
        /\ \A t \in Tests :
             /\ ~bodyRan'[t] /\ tCtx'[t] = 0 /\ tPc'[t] # "body"
             /\ tPc[t] = "authRead" => tPc'[t] \in {"authRead", "teardown"}
             /\ tPc[t] \in {"teardown", "finished"}
                  => (tPc'[t] \in {"teardown", "finished"}
                      /\ tOutcome'[t] = "fixtureError") ]_vars

C10_Witness ==
  /\ file = "absent"
  /\ \E t \in Tests :
       /\ tPc[t] = "finished" /\ tOutcome[t] = "fixtureError"
       /\ ~bodyRan[t] /\ tCtx[t] = 0

\* authenticatedPage has called use(page) for t and has not been torn down.
PageYielded(t) ==
  /\ tPc[t] \in {"setup", "body"}
  /\ "authenticatedPage" \in Range(tStack[t])

C12_RerunFreshLogin ==
  /\ gsPc \in {"haveContext", "havePage", "atLogin"} => gsCtx = "unauth"
  /\ (gsPc = "returned" /\ classified = "success")
       => /\ writes >= 1
          /\ file = "auth" /\ Loadable(file)
          /\ session = "valid"

C12_Witness ==
  /\ gsRuns = 2 /\ gsPc = "returned" /\ classified = "success"
  /\ file = "auth" /\ writes = 1

\* createNewPet was called with a valid name, a status and no image path.
ValidNoImage ==
  /\ cpPc # "idle"
  /\ Len(cpArg.name) >= MinNameLength
  /\ cpArg.status \in Statuses
  /\ ~Truthy(cpArg.imagePath)

C15_ReturnedRecordIsOwnCopy ==
  cpResult = "returned" =>
    /\ cpRec.name = cpArg.name
    /\ cpRec.status = cpArg.status
    /\ cpRec.category = cpArg.category
    /\ IF cpArg.hasTags
         THEN cpRec.tags # 0 /\ cpHeap[cpRec.tags] = cpArg.tags
         ELSE cpRec.tags = 0

C15_Witness ==
  /\ cpResult = "returned" /\ cpArg.hasTags /\ Len(cpArg.tags) = 2
  /\ cpHeap[cpIn.tags] # cpArg.tags /\ cpIn.name # cpArg.name
  /\ cpHeap[cpRec.tags] = cpArg.tags

\* The error never showed within the wait.
NoErrorShown == neAppearsAt = Never \/ neAppearsAt > NameErrorTimeout

\* C16: getNameFieldError never throws; the value it returns is null or a
\* non-empty string without white space at either end, which is the trimmed
\* text of the error element; it is null when no error showed within the
\* 2 s wait, and the trimmed text when the error showed and its text, read,
\* is not blank.
C16_NameErrorTrimmedOrNull ==
  /\ neOutcome # "threw"
  /\ nePc = "done" =>
       /\ neOutcome = "returned"
       /\ ~neResult.isNull =>
            /\ neResult.chars # <<>>
            /\ Head(neResult.chars) # " "
            /\ neResult.chars[Len(neResult.chars)] # " "
            /\ neRead = "ok" /\ ~neText.isNull
            /\ neResult.chars = Trim(neText.chars)
       /\ NoErrorShown => neResult.isNull
       /\ (neRead = "ok" /\ ~neText.isNull /\ Trim(neText.chars) # <<>>)
            => ~neResult.isNull

C16_Witness ==
  /\ nePc = "done" /\ neRead = "ok"
  /\ neText = Str(<<" ", "x", " ">>)
  /\ neResult = Str(<<"x">>)

\* C17: the tracker's array is at all times the sequence of records passed
\* to storePet since the last clearAllPets, in call order, getCount() is
\* their number, and every test body of the Add Pet file starts at count 0
\* whatever the tests before it stored.
C17_TrackerHoldsStoredSinceClear ==
  /\ trPets = trSince
  /\ GetCount = Len(trSince)
  /\ trPc = "body" => trAtStart = 0

C17_Witness ==
  /\ trRan = 2 /\ trPc = "body" /\ trAtStart = 0
  /\ GetCount = 3 /\ trPets = <<"petA", "petB", "petC">>

\* C18: getUser(role) returns what the fixture stores under users[role]:
\* for a role the fixture has, a record whose username and password are
\* the fixture's non-empty strings, character for character; for a role it
\* does not have, undefined.
C18_GetUserReturnsFixtureRecord ==
  dpPc = "done" =>
    IF dpUsers[dpRole].defined
      THEN /\ dpResult.defined
           /\ dpResult.username = dpUsers[dpRole].username
           /\ dpResult.password = dpUsers[dpRole].password
           /\ dpResult.username # "" /\ dpResult.password # ""
      ELSE ~dpResult.defined

C18_Witness ==
  /\ dpPc = "done" /\ dpRole = "user" /\ dpResult.defined
  /\ dpResult.username = "Admin " /\ dpResult.password = " pw"
  /\ dpUsers["admin"].username = "admin"

\* C19: the record generateRandomPet returns has a name of at least 3
\* characters, a status among available, pending and sold, a category
\* among the six pet types, 1 to 3 tags, no tag twice, each from the
\* category's tag list and of at least 3 characters, and an image path from
\* the category's image list.
C19_RandomPetWellFormed ==
  pfPc = "done" =>
    /\ Len(pfPet.name) >= 3
    /\ pfPet.status \in {"available", "pending", "sold"}
    /\ pfPet.category \in PetTypes /\ Cardinality(PetTypes) = 6
    /\ Len(pfPet.tags) \in 1..3
    /\ \A i, j \in DOMAIN pfPet.tags : i # j => pfPet.tags[i] # pfPet.tags[j]
    /\ \A i \in DOMAIN pfPet.tags :
          pfPet.tags[i] \in TypeTags(pfPet.category) /\ Len(pfPet.tags[i]) >= 3
    /\ pfPet.imagePath \in TypeImages(pfPet.category)

C19_Witness ==
  /\ pfPc = "done" /\ pfPet.category = "Fish" /\ Len(pfPet.tags) = 3
  /\ pfPet.name = "Max" /\ pfPet.imagePath = "./assets/pet-fish-1.jpg"

\* C20: a test that created an available pet, searched by that status and
\* sorted by id descending reads its own pet in the first row, whatever the
\* other tests of the run created in between.
C20_FirstRowIsOwnPet ==
  \A t \in Tests :
    (lsPc[t] = "read" /\ lsMine[t].status = "available")
      => lsSeen[t] = lsMine[t]

TagClicks == SelectSeq(cpUi, LAMBDA step : step = "addTag")
TagsEntered == SelectSeq(cpUi, LAMBDA step : step \in TagPool)

\* C22: once the form is filled, the tags section was opened only if at
\* least one tag was supplied, the category section only if a category was,
\* the status dropdown only if a status was, and the tags entered are the
\* supplied ones in their order, one add-tag click each.  It fails for an
\* empty tag list: the section is opened with no tag to enter.
C22_SectionsOnlyWhenSupplied ==
  cpPc \notin {"idle", "form"} =>
    /\ "tagsSection" \in Range(cpUi) => (cpArg.hasTags /\ cpArg.tags # <<>>)
    /\ "categorySection" \in Range(cpUi) => Truthy(cpArg.category)
    /\ "statusDropdown" \in Range(cpUi) => Truthy(cpArg.status)
    /\ TagsEntered = cpArg.tags
    /\ Len(TagClicks) = Len(cpArg.tags)

\* C24: the record returned has imageUploaded true exactly when an image
\* path was supplied, the file existed and the drop was made without an
\* error; in every other return it is false.
C24_ImageUploadedIffAttached ==
  cpResult = "returned" =>
    /\ cpRec.imageUploaded <=> (Truthy(cpArg.imagePath) /\ cpAttach = "done")
    /\ cpAttach = "done" <=> "drop" \in Range(cpUi)

C24_Witness ==
  /\ cpResult = "returned" /\ cpRec.imageUploaded
  /\ cpAttach = "done" /\ Truthy(cpArg.imagePath)

\* C25: the credentials line is in globalSetup's log only when the login was
\* classified as failed; a run classified as successful, and a run that
\* entered the catch block without a failed classification, have no log
\* line holding the password.
C25_CredentialsLoggedOnlyOnFailure ==
  /\ "credentials" \in log => classified = "failure"
  /\ classified = "success" => "credentials" \notin log
  /\ ("errorDuringLogin" \in log /\ classified # "failure")
       => "credentials" \notin log

C25_Witness ==
  /\ gsPc = "returned" /\ classified = "failure"
  /\ "credentials" \in log /\ "fixturesWillHandle" \in log

\* C26: once globalSetup has finished, by returning or by throwing, the
\* browser it launched is closed.
C26_BrowserClosedOnEveryExit == GsFinished => ~browserOpen

\* C27: a test that has finished has left no context open, and a test whose
\* fixture setup failed has not run its body.
C27_ContextClosedWithoutBody ==
  \A t \in Tests :
    /\ (tPc[t] = "finished" /\ tCtx[t] # 0) => ~ctxOpen[tCtx[t]]
    /\ tOutcome[t] = "fixtureError" => ~bodyRan[t]

Occurrences(f, stack) == Cardinality({i \in 1..Len(stack) : stack[i] = f})

\* C29: within one test authenticatedPage is set up at most once; the
\* context it made is the test's only one and is never replaced; it is
\* opened only by that setup and closed only by the teardown of
\* authenticatedPage, after the body and after petsPage was released.
C29_AuthenticatedPageOncePerTest ==
  [][ \A t \in Tests :
        /\ Occurrences("authenticatedPage", tStack'[t]) <= 1
        /\ tCtx[t] # 0 => tCtx'[t] = tCtx[t]
        /\ (tCtx'[t] # 0 /\ ctxOpen'[tCtx'[t]]
              /\ (tCtx[t] = 0 \/ ~ctxOpen[tCtx'[t]]))
             => (tPc[t] = "authRead" /\ tStack[t] = <<>>)
        /\ (tCtx[t] # 0 /\ ctxOpen[tCtx[t]] /\ ~ctxOpen'[tCtx[t]])
             => (tPc[t] = "teardown" /\ tStack[t] = <<"authenticatedPage">>) ]_vars

C29_Witness ==
  \E t \in Tests :
    /\ tKind[t] = "pets" /\ tPc[t] = "finished" /\ bodyRan[t]
    /\ tOutcome[t] # "fixtureError" /\ tCtx[t] # 0 /\ ~ctxOpen[tCtx[t]]

\* What each method's caller relies on when it returns.
PostCondition(op) ==
  CASE op = "goToPets" -> nvUrl = "pets"
    [] op = "goToHome" -> nvUrl = "home"
    [] op = "logout" -> nvUrl = "login"
    [] op = "openPetsMenu" -> nvMenu
    [] op = "selectFindPet" -> nvDialog
    [] op = "selectAddNewPet" -> nvDialog
    [] op = "selectAddNewView" -> nvLoaded

\* C23: a navigation or menu method that has returned has seen its
\* post-condition hold: the URL pattern for goToPets, goToHome and logout,
\* the visible menu content for openPetsMenu, the visible dialog container
\* for selectFindPet and selectAddNewPet, the networkidle load state for
\* selectAddNewView; a method whose wait timed out has thrown instead.
C23_ReturnsAfterPostCondition ==
  /\ nvResult = "returned" => (nvTodo = <<>> /\ PostCondition(nvOp))
  /\ nvResult = "threw" => nvTodo # <<>>

C23_Witness ==
  /\ nvResult = "returned" /\ nvOp = "selectAddNewPet"
  /\ nvDialog /\ ~nvMenu /\ nvUrl = "pets"

\* C28: globalSetup opens the login page of the base URL the fixtures use:
\* the location it visits is the configured baseURL followed by /login,
\* whether BASE_URL is set or not.
C28_SetupLoginAtConfiguredBase ==
  buPc \in {"setup", "tests"} => buSetupUrl = Concat(buConfig, "/login")

\* C30: a context made for the built-in page fixture starts with what
\* auth-state.json holds, as the context of authenticatedPage does; in a
\* test that has both, the two start with the same cookies and are two
\* contexts.
C30_BuiltinPageSeededFromFile ==
  /\ \A fx \in PageFixtures : bpCtx[fx] # 0 => bpSeed[fx] = bpFile
  /\ (bpCtx["page"] # 0 /\ bpCtx["authenticatedPage"] # 0) =>
        /\ bpSeed["page"] = bpSeed["authenticatedPage"]
        /\ bpCtx["page"] # bpCtx["authenticatedPage"]

C30_Witness ==
  /\ bpPc = "body" /\ bpCtx["page"] # 0 /\ bpCtx["authenticatedPage"] # 0
  /\ bpSeed["page"] = "auth" /\ bpSeed["authenticatedPage"] = "auth"

====
